---- MODULE Spec2Model ----
(***************************************************************************)
(* Chihuahua Toy Dash (src/main.js): a maze-chase game.  The model keeps   *)
(* the game's state (player, enemies, toys, score, countdown, running      *)
(* flag, overlay, timer and frame requests) and has one action per         *)
(* handler: init, the keydown handler, the frame callback (loop), the      *)
(* one-second timer callback and the restart click, plus the passing of    *)
(* wall-clock time read by Date.now().                                     *)
(*                                                                         *)
(* Positions are kept in sub-pixel units of 0.2 pixel (SubPixel units per  *)
(* pixel), so that the player's speed (3.0 px) and the enemy's speed       *)
(* (1.2 px) are both integers.                                             *)
(***************************************************************************)
EXTENDS Integers, Sequences, FiniteSets, TLC

\* ------------------------------------------------------------------ constants

TILE_SIZE == 64
ROWS == 13
COLS == 15

\* sub-pixel units per pixel: positions are multiples of 0.2 pixel
SubPixel == 5

\* one tile, and one sprite (size = TILE_SIZE), in sub-pixel units
Tile == TILE_SIZE * SubPixel

\* size - 1 pixels, the offset of a sprite's far edge, in sub-pixel units
Edge == (TILE_SIZE - 1) * SubPixel

\* Player.speed = 3.0 pixels per frame
PlayerSpeed == 3 * SubPixel

\* Enemy.speed = 1.2 pixels per frame = 6 units of 0.2 pixel
EnemySpeed == 6

\* Enemy.startDelay, in ms
startDelay == 3000

\* the countdown's start value, in seconds
StartTime == 60

\* number of toys init places: Math.min(10, emptyCells.length)
ToyCount == 10

\* '1' = wall, '0' = empty path; MAZE[row + 1][col + 1] is the cell (row, col)
MAZE ==
  << <<1,1,1,1,1,1,1,1,1,1,1,1,1,1,1>>,
     <<1,0,0,0,0,0,0,0,0,0,0,0,0,0,1>>,
     <<1,0,1,1,1,1,0,1,1,1,1,1,1,0,1>>,
     <<1,0,1,0,0,0,0,1,0,0,0,0,1,0,1>>,
     <<1,0,1,0,1,1,1,1,1,1,1,0,1,0,1>>,
     <<1,0,1,0,1,0,0,0,0,0,1,0,1,0,1>>,
     <<1,0,1,0,1,0,1,1,1,0,1,0,1,0,1>>,
     <<1,0,1,0,1,0,1,0,0,0,1,0,1,0,1>>,
     <<1,0,1,0,1,0,1,0,1,0,1,0,1,0,1>>,
     <<1,0,1,0,0,0,0,0,1,0,0,0,1,0,1>>,
     <<1,0,1,1,1,1,0,1,1,1,1,1,1,0,1>>,
     <<1,0,0,0,0,0,0,1,0,0,0,0,0,0,1>>,
     <<1,1,1,1,1,1,1,1,1,1,1,1,1,1,1>> >>

\* ------------------------------------------------------------------ helpers

\* isWall without the test on the row: a row outside the maze reads as open
isWallRowUnchecked(row, col) ==
  IF col < 0 \/ col >= COLS
    THEN TRUE
    ELSE IF row < 0 \/ row >= ROWS THEN FALSE ELSE MAZE[row + 1][col + 1] = 1

\* isWall(row, col): outside the maze counts as a wall
isWall(row, col) ==
  IF row < 0 \/ row >= ROWS \/ col < 0 \/ col >= COLS
    THEN TRUE
    ELSE MAZE[row + 1][col + 1] = 1

\* Math.floor(v / TILE_SIZE) for a position v in sub-pixel units.  \div is a
\* floor division also for negative v.
TileOf(v) == v \div Tile

\* v % TILE_SIZE === 0
Aligned(v) == v % Tile = 0

\* Math.round(v / TILE_SIZE) * TILE_SIZE: round half up
Snap(v) == ((2 * v + Tile) \div (2 * Tile)) * Tile

Zero == [x |-> 0, y |-> 0]

\* the four arrow keys' unit vectors (Game.setupControls)
ArrowDirs ==
  [ArrowUp    |-> [x |-> 0,  y |-> -1],
   ArrowDown  |-> [x |-> 0,  y |-> 1],
   ArrowLeft  |-> [x |-> -1, y |-> 0],
   ArrowRight |-> [x |-> 1,  y |-> 0]]

ArrowKeys == {"ArrowUp", "ArrowDown", "ArrowLeft", "ArrowRight"}

\* ------------------------------------------------------------------ Player

\* new Player(x, y), x and y in pixels
NewPlayer(x, y) ==
  [x |-> x * SubPixel, y |-> y * SubPixel,
   direction |-> Zero, nextDirection |-> Zero]

\* Player.tryChangeDirection: the queued direction is taken only at a
\* tile-aligned position whose neighbour in that direction is not a wall
tryChangeDirection(p) ==
  IF Aligned(p.x) /\ Aligned(p.y)
    THEN LET currentRow == TileOf(p.y)
             currentCol == TileOf(p.x)
             nextCol == currentCol + p.nextDirection.x
             nextRow == currentRow + p.nextDirection.y
         IN  IF ~isWall(nextRow, nextCol)
               THEN [p EXCEPT !.direction = p.nextDirection]
               ELSE p
    ELSE p

\* PlayerBlockedX with the left edge taken as the leading edge both ways
PlayerBlockedXLeftEdge(y, dx, newX) ==
  LET col == TileOf(newX)
      rowTop == TileOf(y)
      rowBottom == TileOf(y + Edge)
  IN  isWall(rowTop, col) \/ isWall(rowBottom, col)

\* the horizontal collision test of Player.update: the column of the leading
\* edge at newX, over the rows the sprite spans at y
PlayerBlockedX(y, dx, newX) ==
  LET col == IF dx > 0 THEN TileOf(newX + Edge) ELSE TileOf(newX)
      rowTop == TileOf(y)
      rowBottom == TileOf(y + Edge)
  IN  isWall(rowTop, col) \/ isWall(rowBottom, col)

\* the vertical collision test of Player.update
PlayerBlockedY(x, dy, newY) ==
  LET row == IF dy > 0 THEN TileOf(newY + Edge) ELSE TileOf(newY)
      colLeft == TileOf(x)
      colRight == TileOf(x + Edge)
  IN  isWall(row, colLeft) \/ isWall(row, colRight)

\* Player.update with the snapped coordinate kept on a blocked axis
PlayerUpdateSnaps(p0) ==
  LET p == tryChangeDirection(p0)
      newX0 == p.x + p.direction.x * PlayerSpeed
      newY0 == p.y + p.direction.y * PlayerSpeed
      hitX == p.direction.x # 0 /\ PlayerBlockedX(p.y, p.direction.x, newX0)
      newX == IF hitX THEN Snap(p.x) ELSE newX0
      dx1 == IF hitX THEN 0 ELSE p.direction.x
      hitY == p.direction.y # 0 /\ PlayerBlockedY(newX, p.direction.y, newY0)
      newY == IF hitY THEN Snap(p.y) ELSE newY0
      dy1 == IF hitY THEN 0 ELSE p.direction.y
  IN  [p EXCEPT !.x = newX, !.y = newY, !.direction = [x |-> dx1, y |-> dy1]]

\* Player.update.  On a blocked axis the code assigns the snapped value to
\* this.x (this.y) and sets newX = this.x (newY = this.y) from the value
\* before the snap; the final this.x = newX (this.y = newY) then overwrites
\* the snapped value.  The vertical test reads the snapped this.x.
PlayerUpdate(p0) ==
  LET p == tryChangeDirection(p0)
      newX0 == p.x + p.direction.x * PlayerSpeed
      newY0 == p.y + p.direction.y * PlayerSpeed
      hitX == p.direction.x # 0 /\ PlayerBlockedX(p.y, p.direction.x, newX0)
      newX == IF hitX THEN p.x ELSE newX0
      x1 == IF hitX THEN Snap(p.x) ELSE p.x
      dx1 == IF hitX THEN 0 ELSE p.direction.x
      hitY == p.direction.y # 0 /\ PlayerBlockedY(x1, p.direction.y, newY0)
      newY == IF hitY THEN p.y ELSE newY0
      dy1 == IF hitY THEN 0 ELSE p.direction.y
  IN  [p EXCEPT !.x = newX, !.y = newY, !.direction = [x |-> dx1, y |-> dy1]]

\* ------------------------------------------------------------------ Enemy

\* new Enemy(x, y) created when Date.now() is `now`; x and y in pixels
NewEnemy(x, y, now) ==
  [x |-> x * SubPixel, y |-> y * SubPixel, direction |-> Zero,
   spawnTimestamp |-> now]

\* dirs of Enemy.chooseDirection
EnemyDirs ==
  { [x |-> 1, y |-> 0], [x |-> -1, y |-> 0],
    [x |-> 0, y |-> 1], [x |-> 0, y |-> -1] }

\* the entries of `possible`: the directions whose neighbouring cell of the
\* enemy's tile is not a wall
Possible(e) ==
  { dir \in EnemyDirs : ~isWall(TileOf(e.y) + dir.y, TileOf(e.x) + dir.x) }

\* the `reverse` tag of an entry of `possible`
IsReverse(e, dir) == e.direction.x = -dir.x /\ e.direction.y = -dir.y

\* Candidates without the filter on reverse entries
CandidatesUnfiltered(e) == Possible(e)

\* `candidates`: the non-reverse entries, or all entries when there is none
Candidates(e) ==
  LET nonReverse == { dir \in Possible(e) : ~IsReverse(e, dir) }
  IN  IF nonReverse = {} THEN Possible(e) ELSE nonReverse

\* chooseDirection without the alignment test: a choice at every position
chooseDirectionAnywhere(e) ==
  { [e EXCEPT !.direction = dir] : dir \in Candidates(e) }

\* Enemy.chooseDirection: the set of enemies it can leave, one per outcome of
\* Math.random().  Off the tile grid it returns without choosing.  (With no
\* candidate, choice is undefined and choice.dir throws: the set is empty.)
chooseDirection(e) ==
  IF ~Aligned(e.x) \/ ~Aligned(e.y)
    THEN {e}
    ELSE { [e EXCEPT !.direction = dir] : dir \in Candidates(e) }

\* EnemyBlockedX with the left edge taken as the leading edge both ways
EnemyBlockedXLeftEdge(y, dx, newX) ==
  LET col == TileOf(newX)
      rowTop == TileOf(y)
      rowBottom == TileOf(y + Edge)
  IN  isWall(rowTop, col) \/ isWall(rowBottom, col)

\* the horizontal collision test of Enemy.update
EnemyBlockedX(y, dx, newX) ==
  LET col == IF dx > 0 THEN TileOf(newX + Edge) ELSE TileOf(newX)
      rowTop == TileOf(y)
      rowBottom == TileOf(y + Edge)
  IN  isWall(rowTop, col) \/ isWall(rowBottom, col)

\* the vertical collision test of Enemy.update
EnemyBlockedY(x, dy, newY) ==
  LET row == IF dy > 0 THEN TileOf(newY + Edge) ELSE TileOf(newY)
      colLeft == TileOf(x)
      colRight == TileOf(x + Edge)
  IN  isWall(row, colLeft) \/ isWall(row, colRight)

\* the rest of Enemy.update, after chooseDirection.  A blocked axis reverts
\* the move on that axis and resets the whole direction to (0, 0); the
\* position is not snapped.
EnemyMove(e) ==
  LET newX0 == e.x + e.direction.x * EnemySpeed
      newY0 == e.y + e.direction.y * EnemySpeed
      hitX == e.direction.x # 0 /\ EnemyBlockedX(e.y, e.direction.x, newX0)
      newX == IF hitX THEN e.x ELSE newX0
      d1 == IF hitX THEN Zero ELSE e.direction
      hitY == d1.y # 0 /\ EnemyBlockedY(e.x, d1.y, newY0)
      newY == IF hitY THEN e.y ELSE newY0
      d2 == IF hitY THEN Zero ELSE d1
  IN  [e EXCEPT !.x = newX, !.y = newY, !.direction = d2]

\* InSpawnDelay with a delay of 1000 ms
InSpawnDelayShort(e, now) == now - e.spawnTimestamp < 1000

\* Date.now() - this.spawnTimestamp < this.startDelay
InSpawnDelay(e, now) == now - e.spawnTimestamp < startDelay

\* Enemy.update: the set of enemies it can leave
EnemyUpdate(e, now) ==
  IF InSpawnDelay(e, now)
    THEN {e}
    ELSE { EnemyMove(c) : c \in chooseDirection(e) }

\* ------------------------------------------------------------------ Toy

\* new Toy(row, col, type); the type only selects the sprite
NewToy(cell) == [row |-> cell[1], col |-> cell[2], collected |-> FALSE]

\* emptyCells of Game.init: the non-wall cells other than the start cell
EmptyCells ==
  { <<r, c>> \in (0 .. ROWS - 1) \X (0 .. COLS - 1) :
      ~isWall(r, c) /\ ~(r = 1 /\ c = 1) }

\* ------------------------------------------------------------------ Game

VARIABLES
  player,          \* <<>> (null) or <<the Player>>
  enemies,         \* sequence of Enemy
  toys,            \* sequence of Toy
  score,
  timeLeft,
  running,
  timerInterval,   \* TRUE iff the interval this.timerInterval names is active
  strayTimers,     \* active intervals that this.timerInterval no longer names
  requestPending,  \* TRUE iff the frame request this.requestId names is pending
  stalePending,    \* pending frame requests that this.requestId no longer names
  overlay,         \* "hidden", or the result shown: "win" / "lose"
  now,             \* Date.now(), in ms since the latest init
  limits,          \* the bounds of the explored environment (fixed by Init)
  budget           \* what is left of them in the current session

gameVars ==
  << player, enemies, toys, score, timeLeft, running, timerInterval,
     strayTimers, requestPending, stalePending, overlay, now >>

vars == << gameVars, limits, budget >>

\* the Game object (and the page state its methods touch) as one record
Game ==
  [player |-> player, enemies |-> enemies, toys |-> toys, score |-> score,
   timeLeft |-> timeLeft, running |-> running,
   timerInterval |-> timerInterval, strayTimers |-> strayTimers,
   requestPending |-> requestPending, stalePending |-> stalePending,
   overlay |-> overlay, now |-> now]

\* the next state is the record g
Becomes(g) ==
  /\ player' = g.player
  /\ enemies' = g.enemies
  /\ toys' = g.toys
  /\ score' = g.score
  /\ timeLeft' = g.timeLeft
  /\ running' = g.running
  /\ timerInterval' = g.timerInterval
  /\ strayTimers' = g.strayTimers
  /\ requestPending' = g.requestPending
  /\ stalePending' = g.stalePending
  /\ overlay' = g.overlay
  /\ now' = g.now

\* checkCollision with by2 in place of by1 in the last comparison
checkCollisionWrongEdge(a, b) ==
  /\ a.x < b.x + Tile
  /\ a.x + Tile > b.x
  /\ a.y < b.y + Tile
  /\ a.y + Tile > b.y + Tile

\* Game.checkCollision(a, b): the two sprites overlap with positive area
checkCollision(a, b) ==
  LET ax1 == a.x
      ay1 == a.y
      ax2 == a.x + Tile
      ay2 == a.y + Tile
      bx1 == b.x
      by1 == b.y
      bx2 == b.x + Tile
      by2 == b.y + Tile
  IN  ax1 < bx2 /\ ax2 > bx1 /\ ay1 < by2 /\ ay2 > by1

\* Game.endGame(win): stops the loop and the timer and shows the overlay
endGame(g, win) ==
  [g EXCEPT !.running = FALSE,
            !.timerInterval = FALSE,
            !.requestPending = FALSE,
            !.overlay = IF win THEN "win" ELSE "lose"]

\* toys.every(t => t.collected)
AllCollected(ts) == \A i \in 1 .. Len(ts) : ts[i].collected

\* CollectToys without the toys.every test: any collected toy wins
CollectToysAnyWins(g) ==
  LET p == g.player[1]
      hits == { i \in 1 .. Len(g.toys) :
                  /\ ~g.toys[i].collected
                  /\ g.toys[i].row = TileOf(p.y)
                  /\ g.toys[i].col = TileOf(p.x) }
      ts == [i \in 1 .. Len(g.toys) |->
               IF i \in hits THEN [g.toys[i] EXCEPT !.collected = TRUE]
                             ELSE g.toys[i]]
      g1 == [g EXCEPT !.toys = ts, !.score = g.score + Cardinality(hits)]
  IN  IF hits # {} THEN endGame(g1, TRUE) ELSE g1

\* CollectToys without the test on the column: a toy in the player's row is
\* collected
CollectToysRowOnly(g) ==
  LET p == g.player[1]
      hits == { i \in 1 .. Len(g.toys) :
                  ~g.toys[i].collected /\ g.toys[i].row = TileOf(p.y) }
      ts == [i \in 1 .. Len(g.toys) |->
               IF i \in hits THEN [g.toys[i] EXCEPT !.collected = TRUE]
                             ELSE g.toys[i]]
      g1 == [g EXCEPT !.toys = ts, !.score = g.score + Cardinality(hits)]
  IN  IF hits # {} /\ AllCollected(ts) THEN endGame(g1, TRUE) ELSE g1

\* the toys.forEach of Game.update: a toy in the player's cell is collected
\* and scored; endGame(true) is called when that leaves every toy collected
CollectToys(g) ==
  LET p == g.player[1]
      playerRow == TileOf(p.y)
      playerCol == TileOf(p.x)
      hit(t) == ~t.collected /\ t.row = playerRow /\ t.col = playerCol
      hits == { i \in 1 .. Len(g.toys) : hit(g.toys[i]) }
      ts == [i \in 1 .. Len(g.toys) |->
               IF i \in hits THEN [g.toys[i] EXCEPT !.collected = TRUE]
                             ELSE g.toys[i]]
      g1 == [g EXCEPT !.toys = ts, !.score = g.score + Cardinality(hits)]
  IN  IF hits # {} /\ AllCollected(ts) THEN endGame(g1, TRUE) ELSE g1

\* the enemies.forEach of Game.update, from enemy i on: each enemy is
\* updated, then tested against the player; an overlap calls endGame(false).
\* The set of games it can leave.
RECURSIVE UpdateEnemies(_, _)
UpdateEnemies(g, i) ==
  IF i > Len(g.enemies)
    THEN {g}
    ELSE UNION {
           LET g1 == [g EXCEPT !.enemies[i] = e]
               g2 == IF checkCollision(g1.player[1], e)
                       THEN endGame(g1, FALSE) ELSE g1
           IN  UpdateEnemies(g2, i + 1)
           : e \in EnemyUpdate(g.enemies[i], g.now) }

\* Game.update(dt); dt is not read
update(g) ==
  LET g1 == [g EXCEPT !.player[1] = PlayerUpdate(g.player[1])]
  IN  UpdateEnemies(CollectToys(g1), 1)

\* requestAnimationFrame, its id stored in this.requestId: a request that
\* this.requestId named and that is still pending stays pending, unnamed
requestFrame(g) ==
  [g EXCEPT !.stalePending = IF g.requestPending THEN @ + 1 ELSE @,
            !.requestPending = TRUE]

\* loop without the test of this.running
loopUnguarded(g) == { requestFrame(g1) : g1 \in update(g) }

\* Game.loop(timestamp); lastFrameTime and the delta only feed dt
loop(g) ==
  IF ~g.running
    THEN {g}
    ELSE { requestFrame(g1) : g1 \in update(g) }

\* Game.init without the reset of timeLeft
initKeepsTimeLeft(g, cells) ==
  LET toyCount == IF ToyCount < Len(cells) THEN ToyCount ELSE Len(cells)
      g1 == [g EXCEPT
               !.player = << NewPlayer(1 * TILE_SIZE, 1 * TILE_SIZE) >>,
               !.enemies = << NewEnemy(1 * TILE_SIZE, 11 * TILE_SIZE, g.now) >>,
               !.toys = [i \in 1 .. toyCount |-> NewToy(cells[i])],
               !.score = 0,
               !.timerInterval = TRUE,
               !.running = TRUE]
  IN  loop(g1)

\* Game.init; cells are the first cells of the shuffled emptyCells
init(g, cells) ==
  LET toyCount == IF ToyCount < Len(cells) THEN ToyCount ELSE Len(cells)
      g1 == [g EXCEPT
               !.player = << NewPlayer(1 * TILE_SIZE, 1 * TILE_SIZE) >>,
               !.enemies = << NewEnemy(1 * TILE_SIZE, 11 * TILE_SIZE, g.now) >>,
               !.toys = [i \in 1 .. toyCount |-> NewToy(cells[i])],
               !.score = 0,
               !.timeLeft = StartTime,
               \* clearInterval(this.timerInterval), then setInterval
               !.timerInterval = TRUE,
               !.running = TRUE]
  IN  loop(g1)

\* the timer callback ending the game below 0 instead of at 0
timerCallbackBelowZero(g) ==
  IF ~g.running
    THEN g
    ELSE LET g1 == [g EXCEPT !.timeLeft = g.timeLeft - 1]
         IN  IF g1.timeLeft < 0 THEN endGame(g1, FALSE) ELSE g1

\* the timer callback leaving timeLeft at 1 instead of counting down to 0
timerCallbackStopsAtOne(g) ==
  IF ~g.running \/ g.timeLeft <= 1
    THEN g
    ELSE [g EXCEPT !.timeLeft = g.timeLeft - 1]

\* the setInterval callback of Game.init
timerCallback(g) ==
  IF ~g.running
    THEN g
    ELSE LET g1 == [g EXCEPT !.timeLeft = g.timeLeft - 1]
         IN  IF g1.timeLeft <= 0 THEN endGame(g1, FALSE) ELSE g1

\* the keydown handler setting the current direction as well as the queued one
onkeydownSetsDirection(g, key) ==
  [g EXCEPT !.player[1].nextDirection = ArrowDirs[key],
            !.player[1].direction = ArrowDirs[key]]

\* the window.onkeydown handler of Game.setupControls, for an arrow key
onkeydown(g, key) ==
  [g EXCEPT !.player[1].nextDirection = ArrowDirs[key]]

\* ------------------------------------------------------------------ bounds

\* a bound that is not applied
Unlimited == 0 - 1

\* arrow-key presses per session, where they are bounded
MaxKeys == 1

\* frames per session, where they are bounded
MaxFrames == 3

\* frames per session run after the enemy's spawn delay, where bounded
MaxChase == 2

\* timer ticks per session, where they are bounded
MaxTicks == 1

\* restart clicks, where they are allowed
MaxRestarts == 1

\* the wall clock is read at multiples of ClockStep ms
ClockStep == 1000

\* wall queries are examined up to QueryMargin cells outside the maze
QueryMargin == 2

\* toys in column 1 and next to the start: every toy can be collected
LayoutCol ==
  << <<1,2>>, <<2,1>>, <<3,1>>, <<4,1>>, <<5,1>>,
     <<6,1>>, <<7,1>>, <<8,1>>, <<9,1>>, <<10,1>> >>

\* toys along row 1: every toy can be collected
LayoutRow ==
  << <<1,2>>, <<1,3>>, <<1,4>>, <<1,5>>, <<1,6>>,
     <<1,7>>, <<1,8>>, <<1,9>>, <<1,10>>, <<1,11>> >>

\* toys spread over the maze
LayoutFar ==
  << <<1,5>>, <<11,9>>, <<3,3>>, <<5,7>>, <<1,13>>,
     <<9,6>>, <<7,8>>, <<3,10>>, <<11,2>>, <<6,13>> >>

\* free play: any keys and frames, up to MaxChase frames after the spawn delay
LimitsPlay ==
  [keys |-> Unlimited, frames |-> Unlimited, chase |-> MaxChase,
   ticks |-> MaxTicks, restarts |-> 0, layouts |-> {LayoutCol}]

\* the chase: any number of frames, up to MaxKeys key presses, no timer tick
LimitsChase ==
  [keys |-> MaxKeys, frames |-> Unlimited, chase |-> Unlimited,
   ticks |-> 0, restarts |-> 0, layouts |-> {LayoutRow}]

\* the countdown: any number of ticks and any keys, up to MaxFrames frames
LimitsTimer ==
  [keys |-> Unlimited, frames |-> MaxFrames, chase |-> Unlimited,
   ticks |-> Unlimited, restarts |-> MaxRestarts, layouts |-> {LayoutFar}]

\* restarts: up to MaxKeys key presses and no frame after the spawn delay
LimitsRestart ==
  [keys |-> MaxKeys, frames |-> Unlimited, chase |-> 0,
   ticks |-> 0, restarts |-> MaxRestarts, layouts |-> {LayoutFar}]

\* the bounded environments explored; limits.layouts are the outcomes of the
\* shuffle of Game.init that are explored
Environments == { LimitsPlay, LimitsChase, LimitsTimer, LimitsRestart }

\* cells can be the first cells of the shuffled emptyCells: distinct empty cells
ShufflePrefix(cells) ==
  /\ \A i \in 1 .. Len(cells) : cells[i] \in EmptyCells
  /\ \A i, j \in 1 .. Len(cells) : cells[i] = cells[j] => i = j

\* budget b allows one more event of kind k
Allows(b, k) == b[k] # 0

\* budget b after one event of kind k
Spend(b, k) == IF b[k] > 0 THEN [b EXCEPT ![k] = @ - 1] ELSE b

\* ------------------------------------------------------------------ actions

\* the state after new Game(): the overlay is hidden, nothing is scheduled
Init ==
  /\ player = <<>>
  /\ enemies = <<>>
  /\ toys = <<>>
  /\ score = 0
  /\ timeLeft = StartTime
  /\ running = FALSE
  /\ timerInterval = FALSE
  /\ strayTimers = 0
  /\ requestPending = FALSE
  /\ stalePending = 0
  /\ overlay = "hidden"
  /\ now = 0
  /\ limits \in Environments
  /\ budget = limits

\* some enemy is past its spawn delay
EnemyActive == \E i \in 1 .. Len(enemies) : ~InSpawnDelay(enemies[i], now)

\* DOMContentLoaded, assets loaded: game.init()
Start ==
  /\ player = <<>>
  /\ \E cells \in limits.layouts :
       /\ ShufflePrefix(cells)
       /\ \E g \in init([Game EXCEPT !.now = 0], cells) : Becomes(g)
  /\ UNCHANGED << limits, budget >>

\* the restart button, shown with the overlay: hide the overlay, game.init()
RestartClick ==
  /\ overlay # "hidden"
  /\ Allows(budget, "restarts")
  /\ \E cells \in limits.layouts :
       /\ ShufflePrefix(cells)
       /\ \E g \in init([Game EXCEPT !.overlay = "hidden", !.now = 0], cells) :
            Becomes(g)
  /\ budget' = [limits EXCEPT !.restarts = Spend(budget, "restarts").restarts]
  /\ UNCHANGED limits

\* an arrow key goes down
KeyDown ==
  /\ player # <<>>
  /\ Allows(budget, "keys")
  /\ \E key \in ArrowKeys : Becomes(onkeydown(Game, key))
  /\ budget' = Spend(budget, "keys")
  /\ UNCHANGED limits

\* the display refreshes: the pending frame request this.requestId names runs
Frame ==
  /\ requestPending
  /\ running => /\ Allows(budget, "frames")
                /\ EnemyActive => Allows(budget, "chase")
  /\ \E g \in loop([Game EXCEPT !.requestPending = FALSE]) : Becomes(g)
  /\ budget' = IF ~running THEN budget
               ELSE IF EnemyActive THEN Spend(Spend(budget, "frames"), "chase")
               ELSE Spend(budget, "frames")
  /\ UNCHANGED limits

\* the display refreshes: a pending frame request of an earlier loop runs
StaleFrame ==
  /\ stalePending > 0
  /\ running => /\ Allows(budget, "frames")
                /\ EnemyActive => Allows(budget, "chase")
  /\ \E g \in loop([Game EXCEPT !.stalePending = @ - 1]) : Becomes(g)
  /\ budget' = IF ~running THEN budget
               ELSE IF EnemyActive THEN Spend(Spend(budget, "frames"), "chase")
               ELSE Spend(budget, "frames")
  /\ UNCHANGED limits

\* one second has passed: the interval's callback runs
TimerTick ==
  /\ timerInterval \/ strayTimers > 0
  /\ running => Allows(budget, "ticks")
  /\ Becomes(timerCallback(Game))
  /\ budget' = IF running THEN Spend(budget, "ticks") ELSE budget
  /\ UNCHANGED limits

\* wall-clock time passes; it is followed for as long as an enemy waits
ClockAdvance ==
  /\ \E i \in 1 .. Len(enemies) : InSpawnDelay(enemies[i], now)
  /\ now' = now + ClockStep
  /\ UNCHANGED << player, enemies, toys, score, timeLeft, running,
                  timerInterval, strayTimers, requestPending, stalePending,
                  overlay, limits, budget >>

Next ==
  \/ Start
  \/ RestartClick
  \/ KeyDown
  \/ Frame
  \/ StaleFrame
  \/ TimerTick
  \/ ClockAdvance

Spec == Init /\ [][Next]_vars

\* ------------------------------------------------------------------ claims

\* a frame callback runs Game.update: the session is running when it fires
UpdateStep == running /\ (Frame \/ StaleFrame)

\* the cell (row, col) is inside the grid and is no wall
Walkable(row, col) ==
  /\ row \in 0 .. ROWS - 1
  /\ col \in 0 .. COLS - 1
  /\ MAZE[row + 1][col + 1] = 0

\* the grid lines (rows or columns) a sprite's side [v, v + w] lies over
Lines(v, w) == { k \in -1 .. COLS : k * Tile <= v + w /\ v < (k + 1) * Tile }

\* the two 64x64 boxes overlap with positive area
Overlap(a, b) ==
  /\ a.x < b.x + TILE_SIZE * SubPixel
  /\ a.x + TILE_SIZE * SubPixel > b.x
  /\ a.y < b.y + TILE_SIZE * SubPixel
  /\ a.y + TILE_SIZE * SubPixel > b.y

\* C1: in every reachable state every grid cell overlapped by the player's
\* box [x, x+63] x [y, y+63] (pixels) is inside the grid and is not a wall.
C1_PlayerInWalkableCells ==
  \A i \in 1 .. Len(player) :
    \A row \in Lines(player[i].y, 63 * SubPixel) :
      \A col \in Lines(player[i].x, 63 * SubPixel) : Walkable(row, col)

\* C1 witness: the player has run along row 1 and down column 13 and stands
\* between rows 10 and 11 after its move was blocked by the bottom wall.
C1_Witness ==
  /\ player # <<>>
  /\ player[1].x = 13 * Tile
  /\ player[1].y = 11 * Tile - SubPixel
  /\ player[1].direction = Zero

\* C2 (as claimed): an update step that collects the last uncollected toy
\* leaves the session won: not running, with the win result shown.
C2_LastToyWins ==
  [][ (UpdateStep /\ ~AllCollected(toys) /\ AllCollected(toys'))
        => (~running' /\ overlay' = "win") ]_vars

\* C3: a timer tick of a running session that brings timeLeft to 0 while a
\* toy is uncollected ends the session as lost in that tick.
C3_TimerExpiryLoses ==
  [][ (TimerTick /\ running /\ timeLeft' = 0 /\ ~AllCollected(toys))
        => (~running' /\ overlay' = "lose") ]_vars

\* C3 witness: the countdown has reached 0 with a toy uncollected and the
\* session is lost.
C3_Witness ==
  /\ timeLeft = 0
  /\ ~running
  /\ overlay = "lose"
  /\ \E i \in 1 .. Len(toys) : ~toys[i].collected

\* C4: an update step of a running session after which the player's box and
\* an enemy's box overlap leaves the session lost, also in the spawn delay.
C4_OverlapLoses ==
  [][ (UpdateStep /\ \E i \in 1 .. Len(enemies') :
                        Overlap(player'[1], enemies'[i]))
        => (~running' /\ overlay' = "lose") ]_vars

\* C4 witness: the session is lost with the player's box over the box of an
\* enemy that is still in its spawn delay.
C4_Witness ==
  /\ ~running
  /\ overlay = "lose"
  /\ timeLeft > 0
  /\ \E i \in 1 .. Len(enemies) :
       /\ Overlap(player[1], enemies[i])
       /\ now - enemies[i].spawnTimestamp < 3000

\* d1 is the exact opposite of the non-zero direction d0
Reversed(d0, d1) == d0 # Zero /\ d1.x = -d0.x /\ d1.y = -d0.y

\* the directions whose neighbouring cell of e's tile is walkable
OpenDirs(e) ==
  { d \in { [x |-> 1, y |-> 0], [x |-> -1, y |-> 0],
            [x |-> 0, y |-> 1], [x |-> 0, y |-> -1] } :
      Walkable(e.y \div (TILE_SIZE * SubPixel) + d.y,
               e.x \div (TILE_SIZE * SubPixel) + d.x) }

\* C5: when an update step leaves an enemy heading the exact opposite of its
\* non-zero direction before the step, the reverse was the only direction
\* with an open neighbouring cell.
C5_NoReversalUnlessForced ==
  [][ UpdateStep =>
        \A i \in 1 .. Len(enemies) :
          Reversed(enemies[i].direction, enemies'[i].direction)
            => OpenDirs(enemies[i]) = { enemies'[i].direction } ]_vars

\* C5 witness: the enemy, heading right along row 11, has passed the tile
\* (row 11, column 4), where the way back was open, and kept heading right.
C5_Witness ==
  /\ enemies # <<>>
  /\ enemies[1].x = 4 * Tile + EnemySpeed
  /\ enemies[1].y = 11 * Tile
  /\ enemies[1].direction = [x |-> 1, y |-> 0]

\* both coordinates are exact multiples of the tile size
OnGrid(e) ==
  e.x % (TILE_SIZE * SubPixel) = 0 /\ e.y % (TILE_SIZE * SubPixel) = 0

\* C6 (as claimed): in an update step in which the direction of the player
\* or of an enemy changes, that entity starts the step tile-aligned.
C6_TurnsOnlyOnGrid ==
  [][ UpdateStep =>
        /\ player'[1].direction # player[1].direction => OnGrid(player[1])
        /\ \A i \in 1 .. Len(enemies) :
             enemies'[i].direction # enemies[i].direction
               => OnGrid(enemies[i]) ]_vars

\* the player's tentative move along x (along y) is blocked in Player.update
HitsWallX(p0) ==
  LET p == tryChangeDirection(p0)
  IN  /\ p.direction.x # 0
      /\ PlayerBlockedX(p.y, p.direction.x, p.x + p.direction.x * PlayerSpeed)

HitsWallY(p0) ==
  LET p == tryChangeDirection(p0)
  IN  /\ p.direction.y # 0
      /\ PlayerBlockedY(p.x, p.direction.y, p.y + p.direction.y * PlayerSpeed)

\* C7 (as claimed): after a Player.update whose move along an axis is
\* blocked, the coordinate on that axis is a multiple of the tile size, the
\* move is not applied and the direction component on that axis is 0.
C7_RevertAndSnap ==
  [][ UpdateStep =>
        /\ HitsWallX(player[1]) =>
             /\ player'[1].x % (TILE_SIZE * SubPixel) = 0
             /\ player'[1].x # player[1].x + PlayerSpeed
             /\ player'[1].x # player[1].x - PlayerSpeed
             /\ player'[1].direction.x = 0
        /\ HitsWallY(player[1]) =>
             /\ player'[1].y % (TILE_SIZE * SubPixel) = 0
             /\ player'[1].y # player[1].y + PlayerSpeed
             /\ player'[1].y # player[1].y - PlayerSpeed
             /\ player'[1].direction.y = 0 ]_vars

\* the grid lines a 64-pixel side starting at v overlaps with positive length
BoxLines(v) ==
  { k \in -1 .. COLS :
      k * TILE_SIZE * SubPixel < v + TILE_SIZE * SubPixel
      /\ v < (k + 1) * TILE_SIZE * SubPixel }

\* C8 (as claimed): in every reachable state every grid cell overlapped by an
\* enemy's 64x64 box, [x, x+64) x [y, y+64), is inside the grid and is not a
\* wall.
C8_EnemyInWalkableCells ==
  \A i \in 1 .. Len(enemies) :
    \A row \in BoxLines(enemies[i].y) :
      \A col \in BoxLines(enemies[i].x) : Walkable(row, col)

\* C8 (amended): in every reachable state every grid cell overlapped by an
\* enemy's box [x, x+63] x [y, y+63] (pixels, the extent the wall test reads)
\* is inside the grid and is not a wall.
C8_EnemyFootprintInWalkableCells ==
  \A i \in 1 .. Len(enemies) :
    \A row \in Lines(enemies[i].y, 63 * SubPixel) :
      \A col \in Lines(enemies[i].x, 63 * SubPixel) : Walkable(row, col)

\* C8 witness: the enemy has run right along row 11 and stands where its
\* move was blocked by the wall in column 7, 0.4 pixel past column 6.
C8_Witness ==
  /\ enemies # <<>>
  /\ enemies[1].x = 6 * Tile + 2
  /\ enemies[1].y = 11 * Tile
  /\ enemies[1].direction = Zero

\* C9: once the session has ended, a frame callback or a timer tick leaves
\* the player, the enemies, the toys, the score and timeLeft unchanged.
C9_FrozenAfterEnd ==
  [][ (~running /\ overlay # "hidden" /\ (Frame \/ StaleFrame \/ TimerTick))
        => /\ player' = player
           /\ enemies' = enemies
           /\ toys' = toys
           /\ score' = score
           /\ timeLeft' = timeLeft ]_vars

\* C9 witness: the session was lost to an overlap while the player was
\* moving, and the frame requested by that last update has since run.
C9_Witness ==
  /\ ~running
  /\ overlay = "lose"
  /\ timeLeft > 0
  /\ player[1].direction # Zero
  /\ ~requestPending
  /\ stalePending = 0

\* the session is over with the win (loss) result shown
Won == ~running /\ overlay = "win"
Lost == ~running /\ overlay = "lose"

\* C10: a won session has every toy collected; a lost session has timeLeft 0
\* or the player's box over an enemy's box; and running goes from false to
\* true only in init (the first start or a restart).
C10_EndsOnlyOnTriggers ==
  /\ [](Won => \A i \in 1 .. Len(toys) : toys[i].collected)
  /\ [](Lost => \/ timeLeft = 0
                \/ \E i \in 1 .. Len(enemies) : Overlap(player[1], enemies[i]))
  /\ [][ (~running /\ running') => (Start \/ RestartClick) ]_vars

\* C10 witness: a session is won.
C10_Witness == Won /\ score = Len(toys) /\ timeLeft > 0

\* C11: an arrow-key press sets the player's queued direction to a unit
\* vector and leaves the player's position and direction, the enemies, the
\* toys, the score, timeLeft and running unchanged; and the player's direction
\* takes a new non-zero value only in an update step that the player starts
\* tile-aligned, the value being the queued one and the neighbouring cell in
\* that direction being no wall.
C11_KeyOnlyQueues ==
  /\ [][ KeyDown =>
           /\ \E key \in { "ArrowUp", "ArrowDown", "ArrowLeft", "ArrowRight" } :
                player'[1].nextDirection = ArrowDirs[key]
           /\ player'[1].x = player[1].x
           /\ player'[1].y = player[1].y
           /\ player'[1].direction = player[1].direction
           /\ enemies' = enemies
           /\ toys' = toys
           /\ score' = score
           /\ timeLeft' = timeLeft
           /\ running' = running ]_vars
  /\ [][ ( /\ player # <<>>
           /\ player' # <<>>
           /\ player'[1].direction # player[1].direction
           /\ player'[1].direction # Zero )
         => /\ UpdateStep
            /\ OnGrid(player[1])
            /\ player'[1].direction = player[1].nextDirection
            /\ Walkable(player[1].y \div (TILE_SIZE * SubPixel)
                          + player'[1].direction.y,
                        player[1].x \div (TILE_SIZE * SubPixel)
                          + player'[1].direction.x) ]_vars

\* C11 witness: ArrowDown was pressed at the start cell and the first update
\* after it took the queued direction and moved the player one step down.
C11_Witness ==
  /\ player # <<>>
  /\ player[1].nextDirection = [x |-> 0, y |-> 1]
  /\ player[1].direction = [x |-> 0, y |-> 1]
  /\ player[1].x = 1 * Tile
  /\ player[1].y = 1 * Tile + PlayerSpeed

\* the cells a sprite at (x, y) heading d at `speed` asks isWall about in its
\* update: the leading column over its two rows, the leading row over its two
\* columns
MoveQueries(x, y, d, speed) ==
  LET nx == x + d.x * speed
      ny == y + d.y * speed
      col == IF d.x > 0 THEN (nx + 63 * SubPixel) \div (TILE_SIZE * SubPixel)
                        ELSE nx \div (TILE_SIZE * SubPixel)
      row == IF d.y > 0 THEN (ny + 63 * SubPixel) \div (TILE_SIZE * SubPixel)
                        ELSE ny \div (TILE_SIZE * SubPixel)
      rows == { y \div (TILE_SIZE * SubPixel),
                (y + 63 * SubPixel) \div (TILE_SIZE * SubPixel) }
      cols == { x \div (TILE_SIZE * SubPixel),
                (x + 63 * SubPixel) \div (TILE_SIZE * SubPixel) }
  IN  (IF d.x # 0 THEN { <<r, col>> : r \in rows } ELSE {})
        \cup (IF d.y # 0 THEN { <<row, c>> : c \in cols } ELSE {})

\* the cells next to the tile holding (x, y), in the directions ds
NeighbourQueries(x, y, ds) ==
  { << y \div (TILE_SIZE * SubPixel) + d.y,
       x \div (TILE_SIZE * SubPixel) + d.x >> : d \in ds }

\* the wall queries the next update can make in the current state
WallQueries ==
  LET unit == { [x |-> 1, y |-> 0], [x |-> -1, y |-> 0],
                [x |-> 0, y |-> 1], [x |-> 0, y |-> -1] }
  IN  UNION { NeighbourQueries(player[i].x, player[i].y,
                               { player[i].nextDirection })
                \cup UNION { MoveQueries(player[i].x, player[i].y, d,
                                         PlayerSpeed) :
                             d \in { player[i].direction,
                                     player[i].nextDirection } } :
              i \in 1 .. Len(player) }
      \cup
      UNION { NeighbourQueries(enemies[i].x, enemies[i].y, unit)
                \cup UNION { MoveQueries(enemies[i].x, enemies[i].y, d,
                                         EnemySpeed) :
                             d \in unit \cup { enemies[i].direction } } :
              i \in 1 .. Len(enemies) }

\* isWall is true outside the 13 x 15 grid and, inside, where the maze cell is 1
WallAnswersAsSpecified ==
  \A row \in 0 - QueryMargin .. 13 + QueryMargin :
    \A col \in 0 - QueryMargin .. 15 + QueryMargin :
      isWall(row, col) =
        IF row < 0 \/ row >= 13 \/ col < 0 \/ col >= 15
          THEN TRUE
          ELSE MAZE[row + 1][col + 1] = 1

\* C12: isWall answers true for every cell outside the 13 x 15 grid and, for
\* a cell inside, true exactly when the maze cell is 1; and every wall query
\* the movement code can make in a reachable state has a boolean answer.
C12_WallQueryTotal ==
  /\ WallAnswersAsSpecified
  /\ \A q \in WallQueries : isWall(q[1], q[2]) \in BOOLEAN

\* C12 witness: the player stands tile-aligned at the end of row 1 (column 13)
\* with ArrowUp queued, so that its next update asks about a cell of the
\* maze's border row 0.
C12_Witness ==
  /\ player # <<>>
  /\ player[1].x = 13 * Tile
  /\ player[1].y = 1 * Tile
  /\ player[1].nextDirection = [x |-> 0, y |-> -1]
  /\ <<0, 13>> \in WallQueries

\* the number of active countdown intervals
ActiveTimers == (IF timerInterval THEN 1 ELSE 0) + strayTimers

\* C13: timeLeft is 60 after every init (first start or restart); a timer tick
\* of a running session decrements it by exactly 1 and nothing else changes
\* it; 0 <= timeLeft <= 60 always, timeLeft >= 1 while running; and at most
\* one countdown interval is active.
C13_Countdown ==
  /\ [](timeLeft >= 0 /\ timeLeft <= 60)
  /\ [](running => timeLeft >= 1)
  /\ [](ActiveTimers <= 1)
  /\ [][ (Start \/ RestartClick) => timeLeft' = 60 ]_vars
  /\ [][ (TimerTick /\ running) => timeLeft' = timeLeft - 1 ]_vars
  /\ [][ timeLeft' # timeLeft =>
           \/ Start \/ RestartClick
           \/ TimerTick /\ running ]_vars

\* C13 witness: after a restart the countdown, started again at 60, has been
\* decremented once.
C13_Witness ==
  /\ running
  /\ budget.restarts # limits.restarts
  /\ timeLeft = 59
  /\ ActiveTimers = 1

\* the toys whose collected flag is set
CollectedToys == { i \in 1 .. Len(toys) : toys[i].collected }

\* toy t lies in the cell (floor(y/64), floor(x/64)) of the sprite p
InCellOf(t, p) ==
  t.row = p.y \div (64 * SubPixel) /\ t.col = p.x \div (64 * SubPixel)

\* C14: the score is the number of collected toys; a step that changes the
\* toys or the score is an init or an update step, and the update step sets
\* no flag back to uncollected, does not decrease the score and sets the flag
\* only of toys in the cell the player is in after its move; and an update
\* step that leaves the player in the cell of an uncollected toy collects it.
C14_ScoreCountsCollected ==
  /\ [](score = Cardinality(CollectedToys))
  /\ [][ (toys' # toys \/ score' # score) =>
           \/ /\ running
              /\ Len(toys') = Len(toys)
              /\ score' >= score
              /\ \A i \in 1 .. Len(toys) :
                   /\ toys[i].collected => toys'[i].collected
                   /\ (~toys[i].collected /\ toys'[i].collected)
                        => InCellOf(toys[i], player'[1])
              /\ (Frame \/ StaleFrame)
           \/ Start
           \/ RestartClick ]_vars
  /\ [][ \A i \in 1 .. Len(toys) :
           ( /\ running
             /\ ~toys[i].collected
             /\ InCellOf(toys[i], player'[1])
             /\ (Frame \/ StaleFrame) )
           => toys'[i].collected ]_vars

\* C14 witness: the player has collected the toy right of the start cell and
\* two toys of column 1, and stands in the cell of the last one collected.
C14_Witness ==
  /\ running
  /\ score = 3
  /\ Cardinality(CollectedToys) = 3
  /\ \E i \in CollectedToys :
       /\ toys[i].row = player[1].y \div Tile
       /\ toys[i].col = player[1].x \div Tile
       /\ toys[i].row = 3

\* less than 3000 ms have passed on the wall clock since enemy e was created
Waiting(e) == now - e.spawnTimestamp < 3000

\* C15: an enemy created less than 3000 ms ago stands at its spawn cell
\* (column 1, row 11) with direction (0,0), and no update step that starts
\* within the delay moves it or changes its direction.
C15_SpawnDelay ==
  /\ [](\A i \in 1 .. Len(enemies) :
          Waiting(enemies[i]) =>
            /\ enemies[i].x = 1 * 64 * SubPixel
            /\ enemies[i].y = 11 * 64 * SubPixel
            /\ enemies[i].direction = Zero)
  /\ [][ \A i \in 1 .. Len(enemies) :
           (Waiting(enemies[i]) /\ UpdateStep) =>
             /\ enemies'[i].x = enemies[i].x
             /\ enemies'[i].y = enemies[i].y
             /\ enemies'[i].direction = enemies[i].direction ]_vars

\* C15 witness: more than a hundred frames have run (the player is past row 6
\* of column 1) and the enemy, created 2 clock steps ago, has not moved.
C15_Witness ==
  /\ running
  /\ enemies # <<>>
  /\ Waiting(enemies[1])
  /\ now - enemies[1].spawnTimestamp >= 2 * ClockStep
  /\ enemies[1].x = 1 * Tile
  /\ enemies[1].y = 11 * Tile
  /\ player[1].y > 6 * Tile

\* the number of frame callbacks scheduled and not yet run
PendingFrames == (IF requestPending THEN 1 ELSE 0) + stalePending

\* C16 (as claimed): in every reachable state at most one frame callback is
\* scheduled and pending.
C16_OneFramePending == PendingFrames <= 1

\* the sprite stands still off the tile grid
StuckOffGrid(p) == p.direction = Zero /\ ~OnGrid(p)

C18_EnemyStuckOffGrid ==
  /\ [][ \A i \in 1 .. Len(enemies) :
           ( /\ running
             /\ ~Waiting(enemies[i])
             /\ ~StuckOffGrid(enemies[i])
             /\ Len(enemies') = Len(enemies)
             /\ enemies'[i].direction = Zero
             /\ (Frame \/ StaleFrame) )
           => /\ ~OnGrid(enemies[i])
              /\ enemies'[i].x = enemies[i].x
              /\ enemies'[i].y = enemies[i].y
              /\ StuckOffGrid(enemies'[i]) ]_vars
  /\ [][ ( \E i \in 1 .. Len(enemies) :
             /\ StuckOffGrid(enemies[i])
             /\ enemies'[i] # enemies[i] )
         => RestartClick ]_vars

\* C18 witness: the enemy has run up column 1, was blocked by the top wall at
\* y = 64.4 and stands there, while the player has left the start cell.
C18_Witness ==
  /\ running
  /\ enemies # <<>>
  /\ enemies[1].x = 1 * Tile
  /\ enemies[1].y = 1 * Tile + 2
  /\ enemies[1].direction = Zero
  /\ player[1].x > 2 * Tile

\* ------------------------------------------------------------------ countdown

\* the countdown with a game that can end in a frame: any number of ticks and
\* frames, before and after the spawn delay, and no key press, so that the
\* enemy either runs into the player at the start cell or gets stuck
LimitsCountdown ==
  [keys |-> 0, frames |-> Unlimited, chase |-> Unlimited,
   ticks |-> Unlimited, restarts |-> MaxRestarts, layouts |-> {LayoutFar}]

\* the environments in which the timer is never held back
TimedEnvironments == { LimitsTimer, LimitsCountdown }

\* the state after new Game(), in an environment with a free-running timer
InitTimed ==
  /\ player = <<>>
  /\ enemies = <<>>
  /\ toys = <<>>
  /\ score = 0
  /\ timeLeft = StartTime
  /\ running = FALSE
  /\ timerInterval = FALSE
  /\ strayTimers = 0
  /\ requestPending = FALSE
  /\ stalePending = 0
  /\ overlay = "hidden"
  /\ now = 0
  /\ limits \in TimedEnvironments
  /\ budget = limits

\* setInterval runs its callback every second for as long as the interval is
\* active: the timer tick is weakly fair
SpecTimed == InitTimed /\ [][Next]_vars /\ WF_vars(TimerTick)

\* C19: a running session eventually stops running (it is won or lost), with
\* the timer tick weakly fair; while it runs 1 <= timeLeft <= 60, and every
\* tick of a running session takes 1 off timeLeft and ends the session when
\* that leaves 0, so that it takes at most 60 ticks.
C19_SessionTerminates ==
  /\ running ~> (~running /\ overlay \in {"win", "lose"})
  /\ [](running => (timeLeft >= 1 /\ timeLeft <= 60))
  /\ [][ (TimerTick /\ running) =>
           /\ timeLeft' = timeLeft - 1
           /\ timeLeft' = 0 => ~running' ]_vars

\* C19 witness: the session has been ended by the 60th tick of the timer,
\* after the enemy had run along row 11 and got stuck at x = 384.4.
C19_Witness ==
  /\ ~running
  /\ overlay = "lose"
  /\ timeLeft = 0
  /\ enemies[1].x = 6 * Tile + 2
  /\ enemies[1].direction = Zero
  /\ limits = LimitsCountdown

\* the players one frame can make of p: an arrow key may go down before the
\* frame's Player.update
PlayerSteps(p) ==
  { PlayerUpdate(q) :
      q \in {p} \cup { [p EXCEPT !.nextDirection = ArrowDirs[key]] :
                         key \in { "ArrowUp", "ArrowDown",
                                   "ArrowLeft", "ArrowRight" } } }

\* one more frame: sf = <<seen, frontier>>, the players found so far and those
\* of them not followed yet
Follow(sf) ==
  LET found == UNION { PlayerSteps(p) : p \in sf[2] } \ sf[1]
  IN  << sf[1] \cup found, found >>

\* four, and sixteen, more frames
Follow4(sf) == Follow(Follow(Follow(Follow(sf))))
Follow16(sf) == Follow4(Follow4(Follow4(Follow4(sf))))

\* the players that key presses and frames can make of those found so far
RECURSIVE PlayerClosure(_)
PlayerClosure(sf) ==
  IF sf[2] = {} THEN sf[1] ELSE PlayerClosure(Follow16(sf))

\* the cells (floor(y/64), floor(x/64)) of a set of players
CellsOf(ps) ==
  { << p.y \div (64 * SubPixel), p.x \div (64 * SubPixel) >> : p \in ps }

\* C20 (as claimed): from the state init leaves the player in (pixel (64,64),
\* nothing queued), every non-wall cell other than the start cell (1,1) is the
\* player's cell after some sequence of arrow-key presses and frames.
C20_EveryCellCollectable ==
  ( /\ player # <<>>
    /\ player[1].x = 64 * SubPixel
    /\ player[1].y = 64 * SubPixel
    /\ player[1].direction = Zero
    /\ player[1].nextDirection = Zero )
  => \A row \in 0 .. 12 :
       \A col \in 0 .. 14 :
         (MAZE[row + 1][col + 1] = 0 /\ <<row, col>> # <<1, 1>>)
           => <<row, col>> \in CellsOf(PlayerClosure(<< {player[1]}, {player[1]} >>))

====
